---- MODULE Spec2Model ----
(***************************************************************************)
(* A model of the seewaves PTP client: the shared particle store           *)
(* (seewaves_t), the data thread that applies snapshot packets to it       *)
(* (data_thread_main) and the renderer that reads it (display).            *)
(*                                                                         *)
(* Arrays are functions over 0..n-1, as in the C source.  Floating point   *)
(* values are drawn from small sets of integers; world sizes are even so   *)
(* that the division by 2.0 is exact.                                      *)
(***************************************************************************)
EXTENDS Integers, Sequences, FiniteSets, TLC

VARIABLES
    sw,          \* the store: the fields of seewaves_t the network loops share
    packet,      \* the data thread's receive buffer (ptp_packet_t packet)
    particle,    \* the data thread's loop variable (unsigned int particle)
    data_pc,     \* where the data thread is
    lock,        \* owner of sw->lock: "none", "data" or "display"
    crashed,     \* the process was killed by a faulting store or load
    oob,         \* ids of the last application's stores outside the arrays
    applied_times,  \* history: the packet.t of every packet applied so far
    display_pc,  \* where display() is
    i,           \* display's loop iterator (unsigned int i)
    seen_count,  \* the total_particle_count display last compared i against
    main_pc,     \* where main() is
    hb_pc,       \* where the heartbeat thread is
    fd_table,    \* the process's descriptors: what each refers to
    data_socket_fd,       \* sw->data_socket_fd
    heartbeat_socket_fd,  \* sw->heartbeat_socket_fd
    data_errno,  \* errno of the data thread
    hb_errno,    \* errno of the heartbeat thread
    clock,       \* the value time() returns, in whole seconds
    last_heartbeat_sent,  \* the heartbeat thread's time_t last_heartbeat_sent
    heartbeats_sent       \* sw->heartbeats_sent

NetVars == <<main_pc, hb_pc, fd_table, data_socket_fd, heartbeat_socket_fd,
             data_errno, hb_errno, clock, last_heartbeat_sent, heartbeats_sent>>

vars == <<sw, packet, particle, data_pc, lock, crashed, oob, applied_times,
          display_pc, i, seen_count, NetVars>>

----------------------------------------------------------------------------
(* Bounds of the model *)

MaxTotal == 2        \* packet.total_particle_count ranges over 0..MaxTotal
MaxRecords == 2      \* packet.particle_count ranges over 0..MaxRecords
MaxTime == 2         \* packet.t ranges over 0..MaxTime
MaxPackets == 3      \* packets applied in one behaviour
MaxClock == 5        \* seconds the clock advances in one behaviour

(* Program constants *)

UNDEFINED_PARTICLE == -1
PTP_UDP_PACKET_MAX == 1472
\* (2 * sizeof(unsigned int)) + (7 * sizeof(float))
PTP_PACKET_HEADER_SIZE == (2 * 4) + (7 * 4)
\* sizeof(ptp_particle_data_t), packed: unsigned int, double[4], short
PTP_PARTICLE_DATA_SIZE == 4 + (4 * 8) + 2
PTP_PARTICLES_PER_PACKET ==
    (PTP_UDP_PACKET_MAX - PTP_PACKET_HEADER_SIZE) \div PTP_PARTICLE_DATA_SIZE
SizeofPacket ==
    PTP_PACKET_HEADER_SIZE + PTP_PARTICLES_PER_PACKET * PTP_PARTICLE_DATA_SIZE

PTP_HEARTBEAT_TTL_S == 1

(* LOCK is not defined: the line that defines it is commented out. *)
LOCK == FALSE

(* The value a cell holds after a stray store landed on it: a bit pattern  *)
(* that is none of the values the model tracks.                            *)
GARBAGE == -99

----------------------------------------------------------------------------
(* Values *)

Vec3(a, b, c) == [k \in 0..2 |-> CASE k = 0 -> a [] k = 1 -> b [] k = 2 -> c]

\* double position[4] of a record with payload v; position[3] is not read
Position(v) == [k \in 0..3 |-> IF k = 3 THEN 0 ELSE v + 10 * k]

\* ptp_particle_data_t: the record in slot k of a packet carries payload
\* k + 1, so the records of one packet differ in every field but the id
Record(k, n) == [id |-> n, position |-> Position(k + 1), particle_type |-> k + 31]

\* data[0..c-1] of a packet: every choice of ids, in range or not
DataArrays(c) ==
    { [k \in 0..(c - 1) |-> Record(k, ids[k])] : ids \in [0..(c - 1) -> 0..MaxTotal] }

\* the world box a server announces
WorldOrigin == Vec3(1, 2, 3)
WorldSize == Vec3(4, 8, 12)

\* ptp_packet_t; data holds the particle_count records the header declares
PacketsWith(totals, counts, times) ==
    UNION { { [total_particle_count |-> n, particle_count |-> c, t |-> tm,
               world_origin |-> WorldOrigin, world_size |-> WorldSize,
               data |-> d] : d \in DataArrays(c) } :
            n \in totals, c \in counts, tm \in times }

Packets == PacketsWith(0..MaxTotal, 0..MaxRecords, 0..MaxTime)

\* the receive buffer before the first recvfrom
NoPacket ==
    [total_particle_count |-> 0, particle_count |-> 0, t |-> 0,
     world_origin |-> Vec3(0, 0, 0), world_size |-> Vec3(0, 0, 0),
     data |-> [k \in {} |-> 0]]

\* a pointer to a per-particle array: NULL, a live block or a freed block
NullArray == [alloc |-> "null", cells |-> [k \in {} |-> 0]]
Calloc(n) == [alloc |-> "live", cells |-> [k \in 0..(n - 1) |-> 0]]
Free(a) == [alloc |-> "freed", cells |-> [k \in {} |-> 0]]
Length(a) == Cardinality(DOMAIN a.cells)

ArrayNames == {"x", "y", "z", "particle_type", "t"}

----------------------------------------------------------------------------
(* The packet application of data_thread_main, stage by stage.  A stage    *)
(* works on a machine m: the store, the loop variable particle, whether    *)
(* the process has been killed, and the ids stored outside the arrays.     *)

Machine(s) == [sw |-> s, particle |-> 0, crashed |-> FALSE, oob |-> {}]

\* as KeepMostRecentTimestamp, but following the packet applied last
KeepLatestTimestamp(s, p) ==
    IF p.t # s.most_recent_timestamp
    THEN [s EXCEPT !.most_recent_timestamp = p.t,
                   !.total_timesteps = @ + 1]
    ELSE s

\* as KeepMostRecentTimestamp, but counting a packet of the same time
KeepTimestampCountingEqual(s, p) ==
    IF p.t >= s.most_recent_timestamp
    THEN [s EXCEPT !.most_recent_timestamp = p.t,
                   !.total_timesteps = @ + 1]
    ELSE s

\* if(packet.t > sw->most_recent_timestamp) { ... }
KeepMostRecentTimestamp(s, p) ==
    IF p.t > s.most_recent_timestamp
    THEN [s EXCEPT !.most_recent_timestamp = p.t,
                   !.total_timesteps = @ + 1]
    ELSE s

\* sw->packets_received++
CountPacket(s) == [s EXCEPT !.packets_received = @ + 1]

\* if (sw->total_particle_count != packet.total_particle_count)
NewParticleCount(s, p) == s.total_particle_count # p.total_particle_count

\* as FreeArrays, but beginning the session's counters afresh
FreeArraysAndCounters(s) ==
    [s EXCEPT !.x = Free(@), !.y = Free(@), !.z = Free(@), !.t = Free(@),
              !.most_recent_timestamp = 0,
              !.total_timesteps = 0,
              !.packets_received = 0]

\* if (sw->x != NULL) { free x, y, z, flag, t }: flag is never allocated and
\* particle_type is not freed
FreeArrays(s) ==
    IF s.x.alloc # "null"
    THEN [s EXCEPT !.x = Free(@), !.y = Free(@), !.z = Free(@), !.t = Free(@)]
    ELSE s

\* as AllocArrays, but without the calloc of particle_type
AllocArraysWithoutType(s, p) ==
    [s EXCEPT !.x = Calloc(p.total_particle_count),
              !.y = Calloc(p.total_particle_count),
              !.z = Calloc(p.total_particle_count),
              !.t = Calloc(p.total_particle_count)]

\* the five calloc calls
AllocArrays(s, p) ==
    [s EXCEPT !.x = Calloc(p.total_particle_count),
              !.y = Calloc(p.total_particle_count),
              !.z = Calloc(p.total_particle_count),
              !.particle_type = Calloc(p.total_particle_count),
              !.t = Calloc(p.total_particle_count)]

\* for(particle = 0; particle < packet.total_particle_count; particle++)
\*     sw->x[particle] = UNDEFINED_PARTICLE;
\* leaves particle = packet.total_particle_count
UndefineParticles(m, p) ==
    [m EXCEPT !.sw.x.cells = [k \in DOMAIN @ |-> UNDEFINED_PARTICLE],
              !.particle = p.total_particle_count]

\* as CaptureWorld, but leaving rotation_center as it is
CaptureWorldKeepingCenter(s, p) ==
    [s EXCEPT !.world_origin = p.world_origin,
              !.world_size = p.world_size]

\* sw->rotation_center[0] = UNDEFINED_PARTICLE; memcpy world_origin, world_size
CaptureWorld(s, p) ==
    [s EXCEPT !.rotation_center[0] = UNDEFINED_PARTICLE,
              !.world_origin = p.world_origin,
              !.world_size = p.world_size]

\* the body of the if that allocates
Resize(m, p) ==
    LET a == [m EXCEPT !.sw = AllocArrays(FreeArrays(m.sw), p)]
        b == UndefineParticles(a, p)
    IN  [b EXCEPT !.sw = CaptureWorld(b.sw, p)]

\* sw->total_particle_count = packet.total_particle_count
SaveTotal(s, p) == [s EXCEPT !.total_particle_count = p.total_particle_count]

\* the id lies inside every per-particle array
InArrays(s, id) ==
    \A a \in ArrayNames : s[a].alloc = "live" /\ id \in DOMAIN s[a].cells

\* the five stores of one loop iteration, for an id inside the arrays
StoreRecord(s, p, r) ==
    [s EXCEPT !.t.cells[r.id] = p.t,
              !.x.cells[r.id] = r.position[0],
              !.y.cells[r.id] = r.position[1],
              !.z.cells[r.id] = r.position[2],
              !.particle_type.cells[r.id] = r.particle_type]

\* the cells of live arrays a store outside the arrays can land on
LiveCells(s) ==
    { c \in ArrayNames \X (0..MaxTotal) :
        s[c[1]].alloc = "live" /\ c[2] \in DOMAIN s[c[1]].cells }

\* the id is not checked against the arrays: the stores of an id outside
\* them are undefined.  They fault, or land on memory the program does not
\* read, or land on a cell of a live array.
StrayRecord(m, r) ==
    LET n == [m EXCEPT !.oob = @ \cup {r.id}]
    IN  { [n EXCEPT !.crashed = TRUE] }
        \cup { n }
        \cup { [n EXCEPT !.sw[c[1]].cells[c[2]] = GARBAGE] : c \in LiveCells(m.sw) }

\* what a read of packet.data[k] yields.  The index is not checked against
\* the buffer: a read past its end is undefined, and yields what lies behind
\* the packet on the stack, a record of any id
RecordsAt(p, k) ==
    IF k \in DOMAIN p.data THEN { p.data[k] }
    ELSE { Record(0, n) : n \in 0..MaxTotal }

\* one iteration of for(; particle < packet.particle_count; particle++); a
\* read past the end of the buffer can fault as well
ParticleStep(m, p) ==
    LET done(r) == IF InArrays(m.sw, r.id)
                   THEN { [m EXCEPT !.sw = StoreRecord(m.sw, p, r)] }
                   ELSE StrayRecord(m, r)
        read == UNION { done(r) : r \in RecordsAt(p, m.particle) }
        fault == IF m.particle \in DOMAIN p.data THEN {}
                 ELSE { [m EXCEPT !.crashed = TRUE] }
    IN  { IF n.crashed THEN n ELSE [n EXCEPT !.particle = @ + 1] : n \in read }
        \cup fault

\* the loop through the particles of the packet, from the particle it is
\* entered with
RECURSIVE ParticleLoop(_, _)
ParticleLoop(m, p) ==
    IF m.crashed \/ m.particle >= p.particle_count
    THEN { m }
    ELSE UNION { ParticleLoop(n, p) : n \in ParticleStep(m, p) }

\* as RotationCenter, but with the axes in the order of the world box
RotationCenterInWorldOrder(s) ==
    IF s.rotation_center[0] = UNDEFINED_PARTICLE
    THEN [s EXCEPT !.rotation_center =
             Vec3(s.world_origin[0] + s.world_size[0] \div 2,
                  s.world_origin[1] + s.world_size[1] \div 2,
                  s.world_origin[2] + s.world_size[2] \div 2)]
    ELSE s

\* if(sw->rotation_center[0] == UNDEFINED_PARTICLE) { ... }: the sizes of the
\* boxes used here are even, so that the halves are whole
RotationCenter(s) ==
    IF s.rotation_center[0] = UNDEFINED_PARTICLE
    THEN [s EXCEPT !.rotation_center =
             Vec3(s.world_origin[0] + s.world_size[0] \div 2,
                  s.world_origin[2] + s.world_size[2] \div 2,
                  s.world_origin[1] + s.world_size[1] \div 2)]
    ELSE s

\* sw->udp_buffer_size = sw->total_particle_count * sizeof(ptp_packet_t)
UdpBufferSize(s) ==
    [s EXCEPT !.udp_buffer_size = s.total_particle_count * SizeofPacket]

\* from the lock taken to the particle loop
BeforeParticles(s, p) ==
    LET a == Machine(CountPacket(KeepMostRecentTimestamp(s, p)))
        b == IF NewParticleCount(a.sw, p) THEN Resize(a, p) ELSE a
    IN  [b EXCEPT !.sw = SaveTotal(b.sw, p)]

\* from the particle loop to the unlock
AfterParticles(m) ==
    IF m.crashed THEN m ELSE [m EXCEPT !.sw = UdpBufferSize(RotationCenter(m.sw))]

\* everything the data thread does to the store between trylock and unlock:
\* the set of machines it can end in
ApplyPacket(s, p) ==
    { AfterParticles(m) : m \in ParticleLoop(BeforeParticles(s, p), p) }

----------------------------------------------------------------------------
(* Descriptors.  The process starts with its standard input on descriptor  *)
(* 0; socket() returns the lowest descriptor that is free.  Descriptors 1   *)
(* and 2 stay open throughout and are left out.                             *)

Fds == {0, 3, 4}

\* what getsockopt(SO_RCVBUF) reports for a fresh UDP socket
RcvBufDefault == 212992

\* the value time() returns when the program starts: seconds since the
\* epoch, more than the TTL above the zero last_heartbeat_sent starts with
StartTime == PTP_HEARTBEAT_TTL_S + 1

FdTableAtStart == [f \in Fds |-> IF f = 0 THEN "file" ELSE "closed"]

FreeFds(tbl) == { f \in Fds : tbl[f] = "closed" }

\* the descriptor socket() returns when it succeeds
LowestFree(tbl) == CHOOSE f \in FreeFds(tbl) : \A g \in FreeFds(tbl) : f <= g

OpenSocket(tbl) == [tbl EXCEPT ![LowestFree(tbl)] = "socket"]

\* close(fd): EBADF, and nothing closed, for a descriptor that is not open
Close(tbl, fd) == IF fd \in Fds THEN [tbl EXCEPT ![fd] = "closed"] ELSE tbl

\* shutdown(fd, SHUT_RDWR): a UDP socket is marked shut down, which makes
\* its receives return 0; EBADF or ENOTSOCK and no effect otherwise
Shutdown(tbl, fd) ==
    IF fd \in Fds /\ tbl[fd] = "socket" THEN [tbl EXCEPT ![fd] = "shut"] ELSE tbl

\* what the descriptor refers to
FdState(tbl, fd) == IF fd \in Fds THEN tbl[fd] ELSE "closed"

\* a call that takes a socket works on this descriptor
IsSocket(tbl, fd) == FdState(tbl, fd) \in {"socket", "shut"}

\* the errno values recvfrom fails with on an open socket: nothing to read,
\* a signal, a bad argument (the address length passed is never set), and
\* one of the others
SocketErrors == {"EAGAIN", "EINTR", "EINVAL", "ENOMEM"}

----------------------------------------------------------------------------
(* The state after initialize_application: the structure is cleared *)

InitStore ==
    [total_particle_count |-> 0,
     x |-> NullArray, y |-> NullArray, z |-> NullArray,
     particle_type |-> NullArray, t |-> NullArray,
     packets_received |-> 0,
     most_recent_timestamp |-> 0,
     total_timesteps |-> 0,
     udp_buffer_size |-> 0,
     rotation_center |-> Vec3(0, 0, 0),
     world_origin |-> Vec3(0, 0, 0),
     world_size |-> Vec3(0, 0, 0)]

\* both threads have set their sockets up and main is in its loop
NetReady ==
    /\ main_pc = "loop"
    /\ hb_pc = "time"
    /\ fd_table = OpenSocket(OpenSocket(FdTableAtStart))
    /\ data_socket_fd = 3
    /\ heartbeat_socket_fd = 4
    /\ data_errno = "none"
    /\ hb_errno = "none"
    /\ clock = StartTime
    /\ last_heartbeat_sent = 0
    /\ heartbeats_sent = 0

Init ==
    /\ sw = [InitStore EXCEPT !.udp_buffer_size = RcvBufDefault]
    /\ packet = NoPacket
    /\ particle = 0
    /\ data_pc = "recvfrom"
    /\ lock = "none"
    /\ crashed = FALSE
    /\ oob = {}
    /\ applied_times = {}
    /\ display_pc = "idle"
    /\ i = 0
    /\ seen_count = 0
    /\ NetReady

\* one iteration of the data thread's loop in which recvfrom returns a whole
\* packet p and the lock is free: the packet is applied and the lock released.
\* A behaviour is followed up to its first store outside the arrays: what the
\* program does after it is undefined.
ReceivePacket(p) ==
    /\ ~crashed
    /\ oob = {}
    /\ data_pc = "recvfrom"
    /\ lock = "none"
    /\ sw.packets_received < MaxPackets
    /\ \E m \in ApplyPacket(sw, p) :
         /\ sw' = m.sw
         /\ particle' = m.particle
         /\ crashed' = m.crashed
         /\ oob' = m.oob
    /\ packet' = p
    /\ applied_times' = applied_times \cup {p.t}
    /\ UNCHANGED <<data_pc, lock, display_pc, i, seen_count>>
    /\ UNCHANGED NetVars

Next == \E p \in Packets : ReceivePacket(p)

Spec == Init /\ [][Next]_vars

----------------------------------------------------------------------------
(* The data thread and display() side by side.  The data thread takes the  *)
(* lock and applies the packet one stage at a time; display() runs in the  *)
(* main thread and takes the lock only where LOCK is defined.              *)

\* the packets the data thread receives here: at most one record, one time
ConcPackets == PacketsWith(0..MaxTotal, 0..1, {1})

\* the data thread's machine, and the state a machine leaves
Current == [sw |-> sw, particle |-> particle, crashed |-> crashed, oob |-> oob]

Becomes(m) ==
    /\ sw' = m.sw
    /\ particle' = m.particle
    /\ crashed' = m.crashed
    /\ oob' = m.oob

DisplayVars == <<display_pc, i, seen_count>>

\* recvfrom returns a whole packet
DataRecvfrom(p) ==
    /\ ~crashed
    /\ oob = {}
    /\ data_pc = "recvfrom"
    /\ sw.packets_received < MaxPackets
    /\ packet' = p
    /\ applied_times' = applied_times
    /\ data_pc' = "trylock"
    /\ UNCHANGED <<sw, particle, lock, crashed, oob, DisplayVars>>
    /\ UNCHANGED NetVars

\* as DataTrylock, but giving the packet up when the lock is held
DataTrylockOrDrop ==
    /\ ~crashed
    /\ data_pc = "trylock"
    /\ IF lock = "none"
       THEN lock' = "data" /\ particle' = 0 /\ data_pc' = "timestamp"
       ELSE data_pc' = "recvfrom" /\ UNCHANGED <<lock, particle>>
    /\ UNCHANGED <<sw, packet, applied_times, crashed, oob, DisplayVars>>
    /\ UNCHANGED NetVars

\* pthread_mutex_trylock: the lock is taken, or EBUSY and the loop tries again
DataTrylock ==
    /\ ~crashed
    /\ data_pc = "trylock"
    /\ IF lock = "none"
       THEN lock' = "data" /\ particle' = 0 /\ data_pc' = "timestamp"
       ELSE UNCHANGED <<lock, particle, data_pc>>
    /\ UNCHANGED <<sw, packet, applied_times, crashed, oob, DisplayVars>>
    /\ UNCHANGED NetVars

\* the timestamp: the application of the packet begins
DataTimestamp ==
    /\ ~crashed
    /\ data_pc = "timestamp"
    /\ sw' = KeepMostRecentTimestamp(sw, packet)
    /\ applied_times' = applied_times \cup {packet.t}
    /\ data_pc' = "count"
    /\ UNCHANGED <<packet, particle, lock, crashed, oob, DisplayVars>>
    /\ UNCHANGED NetVars

\* the packet count and the test for a new particle count
DataCount ==
    /\ ~crashed
    /\ data_pc = "count"
    /\ sw' = CountPacket(sw)
    /\ data_pc' = IF NewParticleCount(sw, packet) THEN "free" ELSE "save_total"
    /\ UNCHANGED <<packet, applied_times, particle, lock, crashed, oob, DisplayVars>>
    /\ UNCHANGED NetVars

DataFree ==
    /\ ~crashed
    /\ data_pc = "free"
    /\ sw' = FreeArrays(sw)
    /\ data_pc' = "calloc"
    /\ UNCHANGED <<packet, applied_times, particle, lock, crashed, oob, DisplayVars>>
    /\ UNCHANGED NetVars

DataCalloc ==
    /\ ~crashed
    /\ data_pc = "calloc"
    /\ sw' = AllocArrays(sw, packet)
    /\ data_pc' = "undefine"
    /\ UNCHANGED <<packet, applied_times, particle, lock, crashed, oob, DisplayVars>>
    /\ UNCHANGED NetVars

DataUndefine ==
    /\ ~crashed
    /\ data_pc = "undefine"
    /\ Becomes(UndefineParticles(Current, packet))
    /\ data_pc' = "world"
    /\ UNCHANGED <<packet, applied_times, lock, DisplayVars>>
    /\ UNCHANGED NetVars

DataWorld ==
    /\ ~crashed
    /\ data_pc = "world"
    /\ sw' = CaptureWorld(sw, packet)
    /\ data_pc' = "save_total"
    /\ UNCHANGED <<packet, applied_times, particle, lock, crashed, oob, DisplayVars>>
    /\ UNCHANGED NetVars

DataSaveTotal ==
    /\ ~crashed
    /\ data_pc = "save_total"
    /\ sw' = SaveTotal(sw, packet)
    /\ data_pc' = "particles"
    /\ UNCHANGED <<packet, applied_times, particle, lock, crashed, oob, DisplayVars>>
    /\ UNCHANGED NetVars

\* the particle loop: its test and one iteration
DataParticle ==
    /\ ~crashed
    /\ data_pc = "particles"
    /\ IF particle < packet.particle_count
       THEN /\ \E m \in ParticleStep(Current, packet) : Becomes(m)
            /\ data_pc' = data_pc
       ELSE /\ data_pc' = "rotation"
            /\ UNCHANGED <<sw, particle, crashed, oob>>
    /\ UNCHANGED <<packet, applied_times, lock, DisplayVars>>
    /\ UNCHANGED NetVars

DataRotation ==
    /\ ~crashed
    /\ data_pc = "rotation"
    /\ sw' = UdpBufferSize(RotationCenter(sw))
    /\ data_pc' = "unlock"
    /\ UNCHANGED <<packet, applied_times, particle, lock, crashed, oob, DisplayVars>>
    /\ UNCHANGED NetVars

\* as DataUnlock, but going on to the next receive with the lock still held
DataSkipUnlock ==
    /\ ~crashed
    /\ data_pc = "unlock"
    /\ lock' = lock
    /\ data_pc' = "recvfrom"
    /\ UNCHANGED <<sw, packet, applied_times, particle, crashed, oob, DisplayVars>>
    /\ UNCHANGED NetVars

\* pthread_mutex_unlock
DataUnlock ==
    /\ ~crashed
    /\ data_pc = "unlock"
    /\ lock' = "none"
    /\ data_pc' = "recvfrom"
    /\ UNCHANGED <<sw, packet, applied_times, particle, crashed, oob, DisplayVars>>
    /\ UNCHANGED NetVars

DataVars == <<sw, packet, particle, data_pc, crashed, oob, applied_times>>

\* display() up to its particle loop: the lock is tried only #ifdef LOCK
\* (locking), and display returns at once when it is taken
DisplayEnterIf(locking) ==
    /\ ~crashed
    /\ display_pc = "idle"
    /\ IF locking
       THEN IF lock = "none"
            THEN lock' = "display" /\ display_pc' = "loop"
            ELSE UNCHANGED <<lock, display_pc>>
       ELSE lock' = lock /\ display_pc' = "loop"
    /\ i' = 0
    /\ UNCHANGED <<DataVars, seen_count>>
    /\ UNCHANGED NetVars

\* display() as it is built: LOCK is not defined
DisplayEnter == DisplayEnterIf(LOCK)

\* i < g_seewaves.total_particle_count
DisplayTest ==
    /\ ~crashed
    /\ display_pc = "loop"
    /\ seen_count' = sw.total_particle_count
    /\ display_pc' = IF i < sw.total_particle_count THEN "read" ELSE "status"
    /\ UNCHANGED <<DataVars, lock, i>>
    /\ UNCHANGED NetVars

\* the cells display reads for particle k are there to be read
Readable(s, k) ==
    \A a \in {"x", "y", "z", "t"} : s[a].alloc = "live" /\ k \in DOMAIN s[a].cells

\* the loop body reads x[i], t[i], z[i], y[i]; a load from a freed block or
\* from outside a block is undefined: it faults or yields some value
DisplayRead ==
    /\ ~crashed
    /\ display_pc = "read"
    /\ \/ /\ i' = i + 1
          /\ display_pc' = "loop"
          /\ crashed' = crashed
       \/ /\ ~Readable(sw, i)
          /\ crashed' = TRUE
          /\ UNCHANGED <<i, display_pc>>
    /\ UNCHANGED <<sw, packet, applied_times, particle, data_pc, oob, lock, seen_count>>
    /\ UNCHANGED NetVars

\* the world box and the status lines, and the unlock #ifdef LOCK (locking)
DisplayStatusIf(locking) ==
    /\ ~crashed
    /\ display_pc = "status"
    /\ display_pc' = "idle"
    /\ lock' = IF locking THEN "none" ELSE lock
    /\ UNCHANGED <<DataVars, i, seen_count>>
    /\ UNCHANGED NetVars

DisplayStatus == DisplayStatusIf(LOCK)

NextConc ==
    \/ \E p \in ConcPackets : DataRecvfrom(p)
    \/ DataTrylock
    \/ DataTimestamp
    \/ DataCount
    \/ DataFree
    \/ DataCalloc
    \/ DataUndefine
    \/ DataWorld
    \/ DataSaveTotal
    \/ DataParticle
    \/ DataRotation
    \/ DataUnlock
    \/ DisplayEnter
    \/ DisplayTest
    \/ DisplayRead
    \/ DisplayStatus

SpecConc == Init /\ [][NextConc]_vars

\* the build with LOCK defined: display() tries the lock the data thread
\* uses, the only contention there can be for it
NextContend ==
    \/ \E p \in ConcPackets : DataRecvfrom(p)
    \/ DataTrylock
    \/ DataTimestamp
    \/ DataCount
    \/ DataFree
    \/ DataCalloc
    \/ DataUndefine
    \/ DataWorld
    \/ DataSaveTotal
    \/ DataParticle
    \/ DataRotation
    \/ DataUnlock
    \/ DisplayEnterIf(TRUE)
    \/ DisplayTest
    \/ DisplayRead
    \/ DisplayStatusIf(TRUE)

SpecContend == Init /\ [][NextContend]_vars

\* the data thread spins on the lock: it takes the lock when the lock stays
\* free
SpecContendFair == SpecContend /\ WF_vars(DataTrylock)

\* the data thread alone, a stage at a time, on packets of one or two
\* particles without records that come in every order of time
StepPackets == PacketsWith(1..MaxTotal, {0}, 0..MaxTime)

NextSteps ==
    \/ \E p \in StepPackets : DataRecvfrom(p)
    \/ DataTrylock
    \/ DataTimestamp
    \/ DataCount
    \/ DataFree
    \/ DataCalloc
    \/ DataUndefine
    \/ DataWorld
    \/ DataSaveTotal
    \/ DataParticle
    \/ DataRotation
    \/ DataUnlock

SpecSteps == Init /\ [][NextSteps]_vars

\* packets of one particle that carry all the records a packet has room for,
\* each for particle 0, and declare a particle_count up to one more
FullPackets ==
    { [total_particle_count |-> 1, particle_count |-> c, t |-> 1,
       world_origin |-> WorldOrigin, world_size |-> WorldSize,
       data |-> [k \in 0..(PTP_PARTICLES_PER_PACKET - 1) |-> Record(k, 0)]] :
      c \in {0, PTP_PARTICLES_PER_PACKET, PTP_PARTICLES_PER_PACKET + 1} }

NextFull ==
    \/ \E p \in FullPackets : DataRecvfrom(p)
    \/ DataTrylock
    \/ DataTimestamp
    \/ DataCount
    \/ DataFree
    \/ DataCalloc
    \/ DataUndefine
    \/ DataWorld
    \/ DataSaveTotal
    \/ DataParticle
    \/ DataRotation
    \/ DataUnlock

SpecFull == Init /\ [][NextFull]_vars

----------------------------------------------------------------------------
(* The packet application where calloc can return NULL.  No result of      *)
(* calloc is tested.                                                       *)

\* the five calloc calls, those for the arrays in failed returning NULL
AllocSomeArrays(s, p, failed) ==
    LET block(a) == IF a \in failed THEN NullArray ELSE Calloc(p.total_particle_count)
    IN  [s EXCEPT !.x = block("x"), !.y = block("y"), !.z = block("z"),
                  !.particle_type = block("particle_type"), !.t = block("t")]

\* the loop that sets x to UNDEFINED_PARTICLE: where x is NULL its first
\* store is a store to address 0, which faults
UndefineParticlesOfSome(m, p) ==
    IF m.sw.x.alloc = "null" /\ p.total_particle_count > 0
    THEN [m EXCEPT !.crashed = TRUE, !.oob = @ \cup {0}]
    ELSE UndefineParticles(m, p)

\* the body of the if that allocates
ResizeSome(m, p, failed) ==
    LET a == [m EXCEPT !.sw = AllocSomeArrays(FreeArrays(m.sw), p, failed)]
        b == UndefineParticlesOfSome(a, p)
    IN  IF b.crashed THEN b ELSE [b EXCEPT !.sw = CaptureWorld(b.sw, p)]

\* from the lock taken to the particle loop
BeforeParticlesOfSome(s, p, failed) ==
    LET a == Machine(CountPacket(KeepMostRecentTimestamp(s, p)))
        b == IF NewParticleCount(a.sw, p) THEN ResizeSome(a, p, failed) ELSE a
    IN  IF b.crashed THEN b ELSE [b EXCEPT !.sw = SaveTotal(b.sw, p)]

\* the application of a packet, for every choice of the calloc calls that
\* fail
ApplyPacketAllocating(s, p) ==
    UNION { { AfterParticles(m) :
                m \in ParticleLoop(BeforeParticlesOfSome(s, p, failed), p) } :
            failed \in SUBSET ArrayNames }

\* the packets received here
AllocPackets == PacketsWith(0..MaxTotal, 0..1, {1})

\* one turn of the data thread's loop that receives and applies a packet
ReceivePacketAllocating(p) ==
    /\ ~crashed
    /\ oob = {}
    /\ data_pc = "recvfrom"
    /\ lock = "none"
    /\ sw.packets_received < MaxPackets
    /\ \E m \in ApplyPacketAllocating(sw, p) : Becomes(m)
    /\ packet' = p
    /\ applied_times' = applied_times \cup {p.t}
    /\ UNCHANGED <<data_pc, lock, DisplayVars, NetVars>>

NextAlloc == \E p \in AllocPackets : ReceivePacketAllocating(p)

SpecAlloc == Init /\ [][NextAlloc]_vars

-----------------------------------------------------------------------------
(* Servers that announce different world boxes.                            *)

\* the boxes announced: WorldOrigin and WorldSize, a box of another place
\* and size, and a box whose centre has the x of UNDEFINED_PARTICLE
WorldBoxes ==
    { [origin |-> WorldOrigin, size |-> WorldSize],
      [origin |-> Vec3(10, 20, 30), size |-> Vec3(2, 6, 10)],
      [origin |-> Vec3(UNDEFINED_PARTICLE - 2, 2, 3), size |-> WorldSize] }

\* the packet p with the box b in its header
WithWorld(p, b) == [p EXCEPT !.world_origin = b.origin, !.world_size = b.size]

\* the packets received here: at most one record, one time, every box
WorldPackets ==
    { WithWorld(p, b) : p \in PacketsWith(0..MaxTotal, 0..1, {1}), b \in WorldBoxes }

NextWorld == \E p \in WorldPackets : ReceivePacket(p)

SpecWorld == Init /\ [][NextWorld]_vars

----------------------------------------------------------------------------
(* The two network threads from their set-up on, and main() from its loop  *)
(* to its exit.  Each system call is one step; a call that can fail does   *)
(* so whenever the step chooses.                                           *)

\* the process is alive: no fault, no exit()
Running == ~crashed /\ data_pc # "exit_failure" /\ main_pc # "exited"

StoreVars == <<sw, packet, particle, lock, crashed, oob, applied_times>>

HbVars == <<hb_pc, hb_errno, last_heartbeat_sent, heartbeats_sent>>

\* what a recvfrom on descriptor fd can return: a datagram of the size asked
\* for, a shorter one, an empty one, or -1 with errno set
RecvOutcomes(tbl, fd) ==
    CASE FdState(tbl, fd) = "closed" -> { [len |-> "error", errno |-> "EBADF"] }
      [] FdState(tbl, fd) = "file" -> { [len |-> "error", errno |-> "ENOTSOCK"] }
      [] FdState(tbl, fd) = "shut" -> { [len |-> "zero", errno |-> "none"] }
      [] FdState(tbl, fd) = "socket" ->
            { [len |-> l, errno |-> "none"] : l \in {"whole", "short", "zero"} }
            \cup { [len |-> "error", errno |-> e] : e \in SocketErrors }

\* the packets a server sends here: one particle, no record
NetPackets == PacketsWith({1}, {0}, {1})

\* getaddrinfo; exit(EXIT_FAILURE) when it fails
DataGetaddrinfo ==
    /\ Running
    /\ data_pc = "getaddrinfo"
    /\ \/ data_pc' = "socket"
       \/ data_pc' = "exit_failure"
    /\ UNCHANGED <<StoreVars, DisplayVars, main_pc, HbVars, fd_table,
                   data_socket_fd, heartbeat_socket_fd, data_errno, clock>>

\* socket(); pthread_exit when it fails
DataSocket ==
    /\ Running
    /\ data_pc = "socket"
    /\ \/ /\ FreeFds(fd_table) # {}
          /\ data_socket_fd' = LowestFree(fd_table)
          /\ fd_table' = OpenSocket(fd_table)
          /\ data_pc' = "setsockopt"
          /\ data_errno' = data_errno
       \/ /\ data_socket_fd' = -1
          /\ data_errno' = "EMFILE"
          /\ data_pc' = "exited"
          /\ fd_table' = fd_table
    /\ UNCHANGED <<StoreVars, DisplayVars, main_pc, HbVars, heartbeat_socket_fd, clock>>

\* setsockopt(SO_REUSEADDR), setsockopt(SO_REUSEPORT): close and
\* pthread_exit when one fails, as it does on a descriptor that is no socket
DataSetsockopt ==
    /\ Running
    /\ data_pc = "setsockopt"
    /\ \/ /\ IsSocket(fd_table, data_socket_fd)
          /\ data_pc' = "bind"
          /\ UNCHANGED <<fd_table, data_errno>>
       \/ /\ data_errno' = IF IsSocket(fd_table, data_socket_fd) THEN "ENOMEM"
                           ELSE IF FdState(fd_table, data_socket_fd) = "file"
                                THEN "ENOTSOCK" ELSE "EBADF"
          /\ fd_table' = Close(fd_table, data_socket_fd)
          /\ data_pc' = "exited"
    /\ UNCHANGED <<StoreVars, DisplayVars, main_pc, HbVars, data_socket_fd,
                   heartbeat_socket_fd, clock>>

\* bind(); pthread_exit, the socket left open, when it fails
DataBind ==
    /\ Running
    /\ data_pc = "bind"
    /\ \/ /\ IsSocket(fd_table, data_socket_fd)
          /\ data_pc' = "rcvbuf"
          /\ data_errno' = data_errno
       \/ /\ data_errno' = IF IsSocket(fd_table, data_socket_fd) THEN "EADDRINUSE"
                           ELSE IF FdState(fd_table, data_socket_fd) = "file"
                                THEN "ENOTSOCK" ELSE "EBADF"
          /\ data_pc' = "exited"
    /\ UNCHANGED <<StoreVars, DisplayVars, main_pc, HbVars, fd_table,
                   data_socket_fd, heartbeat_socket_fd, clock>>

\* util_get_udp_buffer_size: the size getsockopt reports (twice the size set
\* with SO_RCVBUF, where one was), or what the uninitialized int size holds
\* when getsockopt fails
GetUdpBufferSize(tbl, fd, configured) ==
    IF IsSocket(tbl, fd)
    THEN IF configured > 0 THEN 2 * configured ELSE RcvBufDefault
    ELSE GARBAGE

\* the receive buffer size is set if one is configured and read back, and
\* the socket made non-blocking; no failure stops the thread here
DataRcvbuf ==
    /\ Running
    /\ data_pc = "rcvbuf"
    /\ sw' = [sw EXCEPT !.udp_buffer_size =
                 GetUdpBufferSize(fd_table, data_socket_fd, sw.udp_buffer_size)]
    /\ data_errno' = IF IsSocket(fd_table, data_socket_fd) THEN data_errno
                     ELSE IF FdState(fd_table, data_socket_fd) = "file"
                          THEN "ENOTSOCK" ELSE "EBADF"
    /\ data_pc' = "recvfrom"
    /\ UNCHANGED <<packet, applied_times, particle, lock, crashed, oob, DisplayVars, main_pc,
                   HbVars, fd_table, data_socket_fd, heartbeat_socket_fd, clock>>

\* as DoneOnErrno, but going on after the errors the chain does not name
DoneOnNamedErrno(e) == e \in {"EBADF", "EINVAL"}

\* the chain of tests on errno that follows a length that is neither
\* sizeof(ptp_packet_t) nor 0: done is set unless errno is EINTR or EAGAIN
\* (EWOULDBLOCK is EAGAIN)
DoneOnErrno(e) ==
    CASE e = "EINTR" -> FALSE
      [] e = "EBADF" -> TRUE
      [] e = "EINVAL" -> TRUE
      [] e = "EAGAIN" -> FALSE
      [] OTHER -> TRUE

\* one turn of while(!done) in which no whole packet arrives: recvfrom, the
\* tests on its length and on errno.  A call that succeeds leaves errno as
\* it was.
DataReceive(o) ==
    /\ Running
    /\ data_pc = "recvfrom"
    /\ o \in RecvOutcomes(fd_table, data_socket_fd)
    /\ o.len # "whole"
    /\ data_errno' = IF o.len = "error" THEN o.errno ELSE data_errno
    /\ data_pc' = IF o.len = "zero" \/ DoneOnErrno(data_errno') THEN "close"
                  ELSE "recvfrom"
    /\ UNCHANGED <<StoreVars, DisplayVars, main_pc, HbVars, fd_table,
                   data_socket_fd, heartbeat_socket_fd, clock>>

\* the lengths of the datagrams that fill the buffer: that of a packet, and
\* the longest a server can send in one frame
DatagramLengths == {SizeofPacket, PTP_UDP_PACKET_MAX}

\* what recvfrom returns for a datagram of n bytes and a buffer of size
\* bytes, flags 0: the bytes stored; what does not fit is thrown away
Recvfrom(n, size) == IF n > size THEN size ELSE n

\* recvfrom fills the buffer from a datagram of n bytes, and the test of the
\* length returned against sizeof(ptp_packet_t) passes
DataReceivePacket(n, p) ==
    /\ Running
    /\ oob = {}
    /\ data_pc = "recvfrom"
    /\ sw.packets_received < MaxPackets
    /\ [len |-> "whole", errno |-> "none"] \in RecvOutcomes(fd_table, data_socket_fd)
    /\ n \in DatagramLengths
    /\ Recvfrom(n, SizeofPacket) = SizeofPacket
    /\ packet' = p
    /\ applied_times' = applied_times
    /\ data_pc' = "apply"
    /\ UNCHANGED <<sw, particle, lock, crashed, oob, DisplayVars, main_pc, HbVars,
                   fd_table, data_socket_fd, heartbeat_socket_fd, data_errno, clock>>

\* while(!locked): the lock is taken, the packet applied, the lock released;
\* the loop turns again while the lock is held by another
DataApply ==
    /\ Running
    /\ data_pc = "apply"
    /\ lock = "none"
    /\ \E m \in ApplyPacket(sw, packet) : Becomes(m)
    /\ applied_times' = applied_times \cup {packet.t}
    /\ data_pc' = "recvfrom"
    /\ UNCHANGED <<packet, lock, DisplayVars, NetVars>>

\* close(sw->data_socket_fd); return(NULL)
DataClose ==
    /\ Running
    /\ data_pc = "close"
    /\ fd_table' = Close(fd_table, data_socket_fd)
    /\ data_pc' = "exited"
    /\ UNCHANGED <<StoreVars, DisplayVars, main_pc, HbVars, data_socket_fd,
                   heartbeat_socket_fd, data_errno, clock>>

DataThread ==
    \/ DataGetaddrinfo
    \/ DataSocket
    \/ DataSetsockopt
    \/ DataBind
    \/ DataRcvbuf
    \/ \E o \in RecvOutcomes(fd_table, data_socket_fd) : DataReceive(o)
    \/ \E n \in DatagramLengths, p \in NetPackets : DataReceivePacket(n, p)
    \/ DataApply
    \/ DataClose

DataNetVars == <<data_pc, data_socket_fd, data_errno>>

\* socket(); pthread_exit when it fails.  fcntl's result is not looked at.
HbSocket ==
    /\ Running
    /\ hb_pc = "socket"
    /\ \/ /\ FreeFds(fd_table) # {}
          /\ heartbeat_socket_fd' = LowestFree(fd_table)
          /\ fd_table' = OpenSocket(fd_table)
          /\ hb_pc' = "getaddrinfo"
          /\ hb_errno' = hb_errno
       \/ /\ heartbeat_socket_fd' = -1
          /\ hb_errno' = "EMFILE"
          /\ hb_pc' = "exited"
          /\ fd_table' = fd_table
    /\ UNCHANGED <<StoreVars, DisplayVars, main_pc, DataNetVars, clock,
                   last_heartbeat_sent, heartbeats_sent>>

\* getaddrinfo; close and pthread_exit when it fails.  last_heartbeat_sent
\* is set to 0 before the loop.
HbGetaddrinfo ==
    /\ Running
    /\ hb_pc = "getaddrinfo"
    /\ \/ /\ hb_pc' = "time"
          /\ fd_table' = fd_table
       \/ /\ fd_table' = Close(fd_table, heartbeat_socket_fd)
          /\ hb_pc' = "exited"
    /\ last_heartbeat_sent' = 0
    /\ UNCHANGED <<StoreVars, DisplayVars, main_pc, DataNetVars, clock,
                   heartbeat_socket_fd, hb_errno, heartbeats_sent>>

\* difftime(now, last_heartbeat_sent) > PTP_HEARTBEAT_TTL_S
TimeToSend(now, last) == now - last > PTP_HEARTBEAT_TTL_S

\* time(&now) and the test whether a heartbeat is due
HbTime ==
    /\ Running
    /\ hb_pc = "time"
    /\ hb_pc' = IF TimeToSend(clock, last_heartbeat_sent) THEN "sendto" ELSE "recvfrom"
    /\ UNCHANGED <<StoreVars, DisplayVars, main_pc, DataNetVars, clock, fd_table,
                   heartbeat_socket_fd, hb_errno, last_heartbeat_sent, heartbeats_sent>>

\* as RecordSendTime, but only after a heartbeat that was sent
RecordSendTimeIfSent(last, now, sent) == IF sent THEN now ELSE last

\* time(&last_heartbeat_sent), after the send has succeeded or failed
RecordSendTime(last, now, sent) == now

\* as CountHeartbeat, but counting every attempt
CountAttempt(n, bytes_sent) == n + 1

\* if (bytes_sent == -1) ... else if (bytes_sent == 0) ... else
\* sw->heartbeats_sent++
CountHeartbeat(n, bytes_sent) == IF bytes_sent > 0 THEN n + 1 ELSE n

\* sizeof(ptp_heartbeat_packet_t): one unsigned int
SizeofHeartbeat == 2 + 2

\* what sendto can return on the descriptor: the size of the heartbeat, 0,
\* or -1 with errno set; on anything but an open socket only -1
SendOutcomes(tbl, fd) ==
    IF FdState(tbl, fd) = "socket" THEN {SizeofHeartbeat, 0, -1} ELSE {-1}

\* errno after a sendto that returned -1
SendErrno(tbl, fd) ==
    CASE FdState(tbl, fd) = "socket" -> "ENOMEM"
      [] FdState(tbl, fd) = "shut" -> "EPIPE"
      [] FdState(tbl, fd) = "file" -> "ENOTSOCK"
      [] OTHER -> "EBADF"

\* sendto and the tests on bytes_sent: -1 is reported, 0 sets done, a
\* positive count is counted; then the time is taken.  With done set the
\* loop ends after the recvfrom that follows.
HbSendto(bytes_sent) ==
    /\ Running
    /\ hb_pc = "sendto"
    /\ bytes_sent \in SendOutcomes(fd_table, heartbeat_socket_fd)
    /\ hb_errno' = IF bytes_sent = -1 THEN SendErrno(fd_table, heartbeat_socket_fd)
                   ELSE hb_errno
    /\ heartbeats_sent' = CountHeartbeat(heartbeats_sent, bytes_sent)
    /\ last_heartbeat_sent' = RecordSendTime(last_heartbeat_sent, clock, bytes_sent > 0)
    /\ hb_pc' = IF bytes_sent = 0 THEN "recvfrom_done" ELSE "recvfrom"
    /\ UNCHANGED <<StoreVars, DisplayVars, main_pc, DataNetVars, clock, fd_table,
                   heartbeat_socket_fd>>

\* the chain of tests on errno that follows a recvfrom that did not return 0
HbDoneOnErrno(e) ==
    CASE e = "EAGAIN" -> FALSE
      [] e = "EINTR" -> FALSE
      [] e = "EBADF" -> TRUE
      [] e = "ETIMEDOUT" -> FALSE
      [] OTHER -> TRUE

\* the recvfrom that tests whether main closed the socket, and the tests on
\* its result
HbRecvfrom(o) ==
    /\ Running
    /\ hb_pc \in {"recvfrom", "recvfrom_done"}
    /\ o \in RecvOutcomes(fd_table, heartbeat_socket_fd)
    /\ hb_errno' = IF o.len = "error" THEN o.errno ELSE hb_errno
    /\ hb_pc' = IF hb_pc = "recvfrom_done" \/ o.len = "zero" \/ HbDoneOnErrno(hb_errno')
                THEN "close" ELSE "time"
    /\ UNCHANGED <<StoreVars, DisplayVars, main_pc, DataNetVars, clock, fd_table,
                   heartbeat_socket_fd, last_heartbeat_sent, heartbeats_sent>>

\* close(sw->heartbeat_socket_fd); return(NULL)
HbClose ==
    /\ Running
    /\ hb_pc = "close"
    /\ fd_table' = Close(fd_table, heartbeat_socket_fd)
    /\ hb_pc' = "exited"
    /\ UNCHANGED <<StoreVars, DisplayVars, main_pc, DataNetVars, clock,
                   heartbeat_socket_fd, hb_errno, last_heartbeat_sent, heartbeats_sent>>

HeartbeatThread ==
    \/ HbSocket
    \/ HbGetaddrinfo
    \/ HbTime
    \/ \E bytes_sent \in {SizeofHeartbeat, 0, -1} : HbSendto(bytes_sent)
    \/ \E o \in RecvOutcomes(fd_table, heartbeat_socket_fd) : HbRecvfrom(o)
    \/ HbClose

\* a second passes
ClockTick ==
    /\ Running
    /\ clock < StartTime + MaxClock
    /\ clock' = clock + 1
    /\ UNCHANGED <<StoreVars, DisplayVars, main_pc, DataNetVars, HbVars, fd_table,
                   heartbeat_socket_fd>>

\* the heartbeat thread by itself, while seconds pass
NextHb ==
    \/ HbSocket
    \/ HbGetaddrinfo
    \/ HbTime
    \/ \E bytes_sent \in {SizeofHeartbeat, 0, -1} : HbSendto(bytes_sent)
    \/ \E o \in RecvOutcomes(fd_table, heartbeat_socket_fd) : HbRecvfrom(o)
    \/ HbClose
    \/ ClockTick

ThreadVars == <<StoreVars, DisplayVars, DataNetVars, HbVars, data_pc, clock,
                heartbeat_socket_fd>>

\* the user closes the window: flag_exit_main_loop = 1 and the loop ends
MainExitLoop ==
    /\ Running
    /\ main_pc = "loop"
    /\ main_pc' = "close_data"
    /\ UNCHANGED <<ThreadVars, fd_table>>

\* close(g_seewaves.data_socket_fd)
MainCloseData ==
    /\ Running
    /\ main_pc = "close_data"
    /\ fd_table' = Close(fd_table, data_socket_fd)
    /\ main_pc' = "close_heartbeat"
    /\ UNCHANGED ThreadVars

\* close(g_seewaves.heartbeat_socket_fd)
MainCloseHeartbeat ==
    /\ Running
    /\ main_pc = "close_heartbeat"
    /\ fd_table' = Close(fd_table, heartbeat_socket_fd)
    /\ main_pc' = "shutdown_data"
    /\ UNCHANGED ThreadVars

\* shutdown(g_seewaves.data_socket_fd, SHUT_RDWR)
MainShutdownData ==
    /\ Running
    /\ main_pc = "shutdown_data"
    /\ fd_table' = Shutdown(fd_table, data_socket_fd)
    /\ main_pc' = "shutdown_heartbeat"
    /\ UNCHANGED ThreadVars

\* shutdown(g_seewaves.heartbeat_socket_fd, SHUT_RDWR)
MainShutdownHeartbeat ==
    /\ Running
    /\ main_pc = "shutdown_heartbeat"
    /\ fd_table' = Shutdown(fd_table, heartbeat_socket_fd)
    /\ main_pc' = "join_data"
    /\ UNCHANGED ThreadVars

\* as MainJoinData, but returning while the thread still runs
MainJoinDataNoWait ==
    /\ Running
    /\ main_pc = "join_data"
    /\ main_pc' = "join_heartbeat"
    /\ UNCHANGED <<ThreadVars, fd_table>>

\* pthread_join(g_seewaves.data_thread): returns once the thread has ended
MainJoinData ==
    /\ Running
    /\ main_pc = "join_data"
    /\ data_pc = "exited"
    /\ main_pc' = "join_heartbeat"
    /\ UNCHANGED <<ThreadVars, fd_table>>

\* pthread_join(g_seewaves.heartbeat_thread)
MainJoinHeartbeat ==
    /\ Running
    /\ main_pc = "join_heartbeat"
    /\ hb_pc = "exited"
    /\ main_pc' = "terminate"
    /\ UNCHANGED <<ThreadVars, fd_table>>

\* glfwTerminate(), cfg_close(), exit(EXIT_SUCCESS)
MainTerminate ==
    /\ Running
    /\ main_pc = "terminate"
    /\ main_pc' = "exited"
    /\ UNCHANGED <<ThreadVars, fd_table>>

Main ==
    \/ MainExitLoop
    \/ MainCloseData
    \/ MainCloseHeartbeat
    \/ MainShutdownData
    \/ MainShutdownHeartbeat
    \/ MainJoinData
    \/ MainJoinHeartbeat
    \/ MainTerminate

\* the two network loops and display() side by side on a store with both
\* sockets set up: the data thread applies its packets a stage at a time,
\* the heartbeat thread sends and probes
NextLock ==
    \/ NextConc
    \/ HbTime
    \/ \E bytes_sent \in {SizeofHeartbeat, 0, -1} : HbSendto(bytes_sent)
    \/ \E o \in RecvOutcomes(fd_table, heartbeat_socket_fd) : HbRecvfrom(o)
    \/ HbClose

SpecLock == Init /\ [][NextLock]_vars

\* the threads have just been created: the structure is cleared, so both
\* descriptor fields are 0
InitNet ==
    /\ sw = InitStore
    /\ packet = NoPacket
    /\ particle = 0
    /\ data_pc = "getaddrinfo"
    /\ lock = "none"
    /\ crashed = FALSE
    /\ oob = {}
    /\ applied_times = {}
    /\ display_pc = "idle"
    /\ i = 0
    /\ seen_count = 0
    /\ main_pc = "loop"
    /\ hb_pc = "socket"
    /\ fd_table = FdTableAtStart
    /\ data_socket_fd = 0
    /\ heartbeat_socket_fd = 0
    /\ data_errno = "none"
    /\ hb_errno = "none"
    /\ clock = StartTime
    /\ last_heartbeat_sent = 0
    /\ heartbeats_sent = 0

NextNet ==
    \/ DataGetaddrinfo
    \/ DataSocket
    \/ DataSetsockopt
    \/ DataBind
    \/ DataRcvbuf
    \/ \E o \in RecvOutcomes(fd_table, data_socket_fd) : DataReceive(o)
    \/ \E n \in DatagramLengths, p \in NetPackets : DataReceivePacket(n, p)
    \/ DataApply
    \/ DataClose
    \/ HbSocket
    \/ HbGetaddrinfo
    \/ HbTime
    \/ \E bytes_sent \in {SizeofHeartbeat, 0, -1} : HbSendto(bytes_sent)
    \/ \E o \in RecvOutcomes(fd_table, heartbeat_socket_fd) : HbRecvfrom(o)
    \/ HbClose
    \/ MainExitLoop
    \/ MainCloseData
    \/ MainCloseHeartbeat
    \/ MainShutdownData
    \/ MainShutdownHeartbeat
    \/ MainJoinData
    \/ MainJoinHeartbeat
    \/ MainTerminate

SpecNet == InitNet /\ [][NextNet]_vars

SpecHb == InitNet /\ [][NextHb]_vars

\* the stages of one packet application, from the lock taken to the unlock
DataStages ==
    \/ DataTimestamp
    \/ DataCount
    \/ DataFree
    \/ DataCalloc
    \/ DataUndefine
    \/ DataWorld
    \/ DataSaveTotal
    \/ DataParticle
    \/ DataRotation
    \/ DataUnlock

\* every turn of while(!done) and the exit of the data thread, beside a
\* display() that tries the lock: a turn receives a whole packet and applies
\* it a stage at a time, or receives none and goes on or sets done
NextTurns ==
    \/ \E p \in ConcPackets : DataRecvfrom(p)
    \/ \E o \in RecvOutcomes(fd_table, data_socket_fd) : DataReceive(o)
    \/ DataTrylock
    \/ DataStages
    \/ DataClose
    \/ DisplayEnterIf(TRUE)
    \/ DisplayTest
    \/ DisplayRead
    \/ DisplayStatusIf(TRUE)

SpecTurns == Init /\ [][NextTurns]_vars

\* the data thread is scheduled: a stage that can run does run
SpecTurnsFair == SpecTurns /\ WF_vars(DataStages)

\* the scheduler lets every thread that can take a step take one
SpecNetFair ==
    SpecNet /\ WF_vars(DataThread) /\ WF_vars(HeartbeatThread) /\ WF_vars(Main)

----------------------------------------------------------------------------
(* What the claims speak of *)

\* a packet has been applied: packet holds the packet applied last
Applied == sw.packets_received > 0

\* this step applies packet' to the store
Applies == sw'.packets_received = sw.packets_received + 1

\* the per-particle data the store holds for an id
SlotOf(s, id) ==
    [x |-> s.x.cells[id], y |-> s.y.cells[id], z |-> s.z.cells[id],
     particle_type |-> s.particle_type.cells[id], t |-> s.t.cells[id]]

\* the per-particle data a record r of packet p asks for
SlotFor(p, r) ==
    [x |-> r.position[0], y |-> r.position[1], z |-> r.position[2],
     particle_type |-> r.particle_type, t |-> p.t]

\* the slot of a particle no record has been written to since the resize
UndefinedSlot ==
    [x |-> UNDEFINED_PARTICLE, y |-> 0, z |-> 0, particle_type |-> 0, t |-> 0]

\* the ids the records of p name
Named(p) == { p.data[k].id : k \in DOMAIN p.data }

\* slot k is the last record of p that names its id
LastOfItsId(p, k) ==
    \A j \in DOMAIN p.data : j > k => p.data[j].id # p.data[k].id

\* the ids of the store
Ids(s) == 0..(s.total_particle_count - 1)

Max(a, b) == IF a >= b THEN a ELSE b

----------------------------------------------------------------------------
\* C1: after a packet is applied, every record of it whose id has a slot is
\* in that slot (position, particle_type, last_update_time = packet.t), also
\* when the packet is the one that resized the store.
C1_EveryRecordWritten ==
    (Applied /\ ~crashed /\ oob = {}) =>
        \A k \in DOMAIN packet.data :
            (packet.data[k].id \in Ids(sw) /\ LastOfItsId(packet, k)) =>
                SlotOf(sw, packet.data[k].id) = SlotFor(packet, packet.data[k])

\* C2: applying the packet applied last once more changes nothing in the
\* store but packets_received, which is one higher.
C2_Idempotent ==
    (Applied /\ ~crashed /\ oob = {}) =>
        \A m \in ApplyPacket(sw, packet) :
            m.sw = [sw EXCEPT !.packets_received = @ + 1]

C4_NoStoreOutsideArrays == oob = {}

\* C7: applying a packet leaves most_recent_timestamp at the larger of its
\* old value and packet.t; it never decreases.
C7_TimestampIsMax ==
    [][ /\ sw'.most_recent_timestamp >= sw.most_recent_timestamp
        /\ Applies => sw'.most_recent_timestamp =
                          Max(sw.most_recent_timestamp, packet'.t) ]_vars

\* C7 witness: a packet older than most_recent_timestamp was applied
C7_Witness == Applied /\ packet.t < sw.most_recent_timestamp

\* C8: applying a packet adds one to total_timesteps when packet.t is above
\* the most_recent_timestamp held before, and nothing otherwise.
C8_TimestepCounted ==
    [][ /\ Applies =>
             sw'.total_timesteps = sw.total_timesteps +
                 (IF packet'.t > sw.most_recent_timestamp THEN 1 ELSE 0)
        /\ ~Applies => sw'.total_timesteps = sw.total_timesteps ]_vars

\* C8 witness: of three packets applied, two raised the timestamp
C8_Witness == sw.packets_received = 3 /\ sw.total_timesteps = 2

\* C9: a packet with the store's total_particle_count and fewer records
\* than that leaves every id it names with the data of the last record
\* naming it and every other id as it was.
C9_OnlyNamedIdsChange ==
    [][ ( /\ Applies
          /\ packet'.total_particle_count = sw.total_particle_count
          /\ packet'.particle_count < sw.total_particle_count ) =>
        \A id \in Ids(sw) :
            /\ id \notin Named(packet') => SlotOf(sw', id) = SlotOf(sw, id)
            /\ \A k \in DOMAIN packet'.data :
                 (packet'.data[k].id = id /\ LastOfItsId(packet', k)) =>
                     SlotOf(sw', id) = SlotFor(packet', packet'.data[k]) ]_vars

\* C10: a packet with the store's total_particle_count and a time below
\* most_recent_timestamp overwrites every id it names, leaves
\* most_recent_timestamp and total_timesteps alone and adds one to
\* packets_received.
C10_LastWriterWins ==
    [][ ( /\ Applies
          /\ packet'.total_particle_count = sw.total_particle_count
          /\ packet'.t < sw.most_recent_timestamp ) =>
        /\ sw'.most_recent_timestamp = sw.most_recent_timestamp
        /\ sw'.total_timesteps = sw.total_timesteps
        /\ sw'.packets_received = sw.packets_received + 1
        /\ \A k \in DOMAIN packet'.data :
             (packet'.data[k].id \in Ids(sw) /\ LastOfItsId(packet', k)) =>
                 SlotOf(sw', packet'.data[k].id) = SlotFor(packet', packet'.data[k]) ]_vars

\* the places of display() at which it reads the store
DisplayReads == {"loop", "read", "status"}

\* C5: display reads the store only while it holds the lock the data thread
\* holds during an application, so no read of display falls inside an
\* application.
C5_ReadsExcludeApplication ==
    display_pc \in DisplayReads => lock = "display" /\ lock # "data"

\* C6: where display reads the cells of particle i, having found i below
\* total_particle_count, the arrays x, y, z and t are allocated and as long
\* as the total_particle_count it read.
C6_DisplaySeesWholeArrays ==
    display_pc = "read" =>
        \A a \in {"x", "y", "z", "t"} :
            /\ sw[a].alloc = "live"
            /\ DOMAIN sw[a].cells = 0..(seen_count - 1)

\* C11: a packet whose total_particle_count differs from the store's leaves
\* every id below that count that none of its records names at the undefined
\* sentinel (x = UNDEFINED_PARTICLE, the other cells as calloc left them):
\* nothing the store held before the resize is left.
C11_ResizeDiscards ==
    [][ (Applies /\ NewParticleCount(sw, packet') /\ ~crashed') =>
        \A id \in 0..(packet'.total_particle_count - 1) :
            id \notin Named(packet') => SlotOf(sw', id) = UndefinedSlot ]_vars

\* the data thread is in its receive loop
InReceiveLoop == data_pc \in {"recvfrom", "apply"}

\* main has closed the descriptor the receive loop reads from
ReceiverSocketClosed ==
    /\ main_pc \notin {"loop", "close_data"}
    /\ FdState(fd_table, data_socket_fd) = "closed"

\* C12: once main has closed the socket of the running receive loop, the
\* data thread changes no field of the store, and its next receive ends the
\* loop.
C12_NoWriteAfterClose ==
    [][ (InReceiveLoop /\ ReceiverSocketClosed) =>
        /\ sw' = sw
        /\ (data_pc = "recvfrom" /\ data_pc' # data_pc) => data_pc' = "close" ]_vars

\* main has come back from both joins
JoinsReturned == main_pc \in {"terminate", "exited"}

\* C13: main comes back from the joins, which follow the closes, only when
\* the data thread and the heartbeat thread have both ended, and nothing is
\* written to the store from then on.
C13_JoinsBeforeReturn ==
    [][ /\ JoinsReturned' => (data_pc' = "exited" /\ hb_pc' = "exited")
        /\ JoinsReturned => (sw' = sw /\ heartbeats_sent' = heartbeats_sent)
        /\ main_pc' = "join_data" =>
               main_pc \in {"shutdown_heartbeat", "join_data"} ]_vars

\* C13 witness: main has exited after both threads worked: a packet was
\* applied and a heartbeat sent
C13_Witness ==
    main_pc = "exited" /\ sw.packets_received > 0 /\ heartbeats_sent > 0

\* C14: once main has left its loop to shut down, it reaches its exit (or
\* the process has ended before): both threads end and both joins return.
C14_ShutdownCompletes ==
    (main_pc = "close_data") ~> (main_pc = "exited" \/ ~Running)

\* a set-up call of the data thread fails in this step
DataSetupFails ==
    /\ data_pc \in {"getaddrinfo", "socket", "bind"}
    /\ data_pc' \in {"exited", "exit_failure"}

\* a set-up call of the heartbeat thread fails in this step
HbSetupFails == hb_pc \in {"socket", "getaddrinfo"} /\ hb_pc' = "exited"

\* C15: a set-up call that fails ends the thread it is made in and nothing
\* else: the process runs on, and so does the other thread.
C15_SetupErrorEndsOnlyItsThread ==
    [][ /\ DataSetupFails => (Running' /\ data_pc' = "exited" /\ hb_pc' = hb_pc)
        /\ HbSetupFails => (Running' /\ data_pc' = data_pc) ]_vars

\* C16: a datagram shorter than a packet changes nothing in the store and
\* leaves the receive loop running, whatever errno holds.
C16_ShortDatagramDiscarded ==
    [][ \A o \in RecvOutcomes(fd_table, data_socket_fd) :
            (o.len = "short" /\ DataReceive(o)) =>
                (sw' = sw /\ data_pc' = "recvfrom") ]_vars

\* C17: a receive ends the loop exactly when it returns 0 or fails with
\* EBADF or EINVAL; after every other failure the loop goes on, and the
\* store is as it was.
C17_StopsOnZeroBadfInval ==
    [][ \A o \in RecvOutcomes(fd_table, data_socket_fd) :
            (o.len \in {"zero", "error"} /\ DataReceive(o)) =>
                /\ sw' = sw
                /\ data_pc' = "close" <=>
                       (o.len = "zero" \/ o.errno \in {"EBADF", "EINVAL"}) ]_vars

\* C17, amended: a receive that returns 0, or fails with an errno other than
\* EINTR and EAGAIN, ends the loop; after a receive that fails with EINTR or
\* EAGAIN the loop goes on; the store is as it was in both cases.
C17_StopsOnAllButIntrAgain ==
    [][ \A o \in RecvOutcomes(fd_table, data_socket_fd) :
            (o.len \in {"zero", "error"} /\ DataReceive(o)) =>
                /\ sw' = sw
                /\ data_pc' = "close" <=>
                       (o.len = "zero" \/ o.errno \notin {"EINTR", "EAGAIN"})
                /\ data_pc' = "recvfrom" <=>
                       (o.len = "error" /\ o.errno \in {"EINTR", "EAGAIN"}) ]_vars

\* C17 witness: the loop has ended on an error other than EBADF and EINVAL,
\* after packets were applied
C17_Witness ==
    data_pc = "close" /\ data_errno = "ENOMEM" /\ sw.packets_received > 0

\* a calloc of the resize for the store's particle count returned NULL
AllocationFailed ==
    /\ Applied
    /\ packet.total_particle_count > 0
    /\ \E a \in ArrayNames : sw[a].alloc = "null"

\* C18: when a calloc of a resize fails, the data thread stores nothing
\* through the NULL pointer (no sentinel, no record) and does not go on
\* receiving.
C18_StopsOnFailedAllocation ==
    AllocationFailed => (oob = {} /\ ~crashed /\ data_pc # "recvfrom")

\* C19: a turn of the heartbeat loop goes on to send exactly when the clock
\* is more than PTP_HEARTBEAT_TTL_S past last_heartbeat_sent; the send
\* counts at most one heartbeat and sets last_heartbeat_sent to the clock
\* whether it succeeded or failed; nothing else changes either of them.
C19_OneHeartbeatPerTtl ==
    [][ /\ (hb_pc = "time" /\ hb_pc' # hb_pc) =>
               (hb_pc' = "sendto" <=>
                    clock - last_heartbeat_sent > PTP_HEARTBEAT_TTL_S)
        /\ (hb_pc = "sendto" /\ hb_pc' # hb_pc) =>
               /\ last_heartbeat_sent' = clock
               /\ heartbeats_sent' \in {heartbeats_sent, heartbeats_sent + 1}
        /\ hb_pc \in {"time", "recvfrom", "recvfrom_done", "close", "exited"} =>
               /\ last_heartbeat_sent' = last_heartbeat_sent
               /\ heartbeats_sent' = heartbeats_sent ]_vars

\* C19 witness: a turn of the loop one TTL after a send that failed: no
\* heartbeat has gone out yet and none is tried now
C19_Witness ==
    /\ hb_pc = "time"
    /\ heartbeats_sent = 0
    /\ last_heartbeat_sent > 0
    /\ clock - last_heartbeat_sent = PTP_HEARTBEAT_TTL_S

\* C20: a heartbeat that follows another is sent less than
\* PTP_HEARTBEAT_TTL_S after it, by the loop's clock.
C20_IntervalBelowTtl ==
    (hb_pc = "sendto" /\ heartbeats_sent > 0) =>
        clock - last_heartbeat_sent < PTP_HEARTBEAT_TTL_S

\* C21: heartbeats_sent goes up by one in a sendto that returns a positive
\* count, stays as it is in one that returns 0 or -1, and changes in no
\* other step: it never goes down.
C21_CountsPositiveSends ==
    [][ /\ heartbeats_sent' >= heartbeats_sent
        /\ \A bytes_sent \in {SizeofHeartbeat, 0, -1} :
               HbSendto(bytes_sent) =>
                   heartbeats_sent' = IF bytes_sent > 0 THEN heartbeats_sent + 1
                                      ELSE heartbeats_sent
        /\ ~(\E bytes_sent \in {SizeofHeartbeat, 0, -1} : HbSendto(bytes_sent)) =>
               heartbeats_sent' = heartbeats_sent ]_vars

\* C21 witness: a heartbeat was counted, and a later send has failed
C21_Witness == heartbeats_sent = 1 /\ hb_errno = "ENOMEM" /\ hb_pc = "recvfrom"

\* the heartbeat thread ended when getaddrinfo failed: it has a descriptor
\* number from socket(), and it never took the time of a send
HbEndedAtResolution ==
    /\ hb_pc = "exited"
    /\ heartbeat_socket_fd # -1
    /\ last_heartbeat_sent = 0

\* the step in which getaddrinfo fails in the heartbeat thread
HbResolutionFails == hb_pc = "getaddrinfo" /\ hb_pc' = "exited"

\* C22 (what the failing step and the steps after it leave alone): the step
\* in which the resolution fails changes nothing of the store, of the data
\* thread or of main and closes no descriptor but the thread's own; after it
\* heartbeats_sent is 0 and stays 0, and the heartbeat thread takes no step.
C22_HeartbeatEndsAlone ==
    [][ /\ HbResolutionFails =>
               /\ UNCHANGED <<StoreVars, DataNetVars, main_pc, heartbeats_sent>>
               /\ Running'
               /\ \A fd \in Fds \ {heartbeat_socket_fd} :
                      FdState(fd_table', fd) = FdState(fd_table, fd)
        /\ HbEndedAtResolution =>
               /\ heartbeats_sent = 0 /\ heartbeats_sent' = 0
               /\ UNCHANGED <<hb_pc, hb_errno, last_heartbeat_sent>> ]_vars

\* C22: a resolution failure at the start of the heartbeat thread ends that
\* thread only (the data thread goes on receiving and applying,
\* heartbeats_sent stays 0), and a shutdown that comes later still joins
\* both threads.
C22_ResolutionFailureEndsHeartbeatOnly ==
    /\ C22_HeartbeatEndsAlone
    /\ (HbEndedAtResolution /\ main_pc = "close_data") ~> (main_pc = "exited" \/ ~Running)

\* the shutdown part of C22 for a shutdown that begins when the data thread
\* is in its loop
C22_ShutdownJoinsFromLoop ==
    (HbEndedAtResolution /\ main_pc = "close_data" /\ InReceiveLoop)
        ~> (main_pc = "exited" \/ ~Running)

\* the last sendto of the loop returned -1 on a socket that is still open,
\* and the recvfrom that follows it in the same turn has not run yet
SendFailedOnOpenSocket ==
    /\ hb_pc = "recvfrom"
    /\ hb_errno = SendErrno(fd_table, heartbeat_socket_fd)
    /\ FdState(fd_table, heartbeat_socket_fd) = "socket"

\* the recvfrom returned something that is no reason of its own to end the
\* loop: a datagram that is not empty, or -1 with EAGAIN or EINTR
NoReasonToStop(o) ==
    \/ o.len \in {"whole", "short"}
    \/ o.len = "error" /\ o.errno \in {"EAGAIN", "EINTR"}

\* C23: after a sendto that returned -1 on a socket still open the loop is
\* not ended: the recvfrom of that turn, when it gives no reason of its own
\* to stop, takes the loop back to the test of the time with the time of
\* the failed send kept, so that the next heartbeat waits for the TTL.
C23_FailedSendKeepsLoop ==
    [][ \A o \in RecvOutcomes(fd_table, heartbeat_socket_fd) :
            (SendFailedOnOpenSocket /\ NoReasonToStop(o) /\ HbRecvfrom(o)) =>
                /\ hb_pc' = "time"
                /\ last_heartbeat_sent' = last_heartbeat_sent ]_vars

\* C23 for the turns in which nothing arrives on the heartbeat socket
C23_FailedSendThenNothingReady ==
    [][ \A o \in RecvOutcomes(fd_table, heartbeat_socket_fd) :
            (SendFailedOnOpenSocket /\ o.len = "error" /\ NoReasonToStop(o)
               /\ HbRecvfrom(o)) =>
                /\ hb_pc' = "time"
                /\ last_heartbeat_sent' = last_heartbeat_sent ]_vars

\* C29: a datagram that arrives on the heartbeat socket (recvfrom returns a
\* positive count) is thrown away: no field of the store changes and the
\* loop goes on, whatever errno holds from the calls before.
C29_HeartbeatDataDiscarded ==
    [][ \A o \in RecvOutcomes(fd_table, heartbeat_socket_fd) :
            (hb_pc = "recvfrom" /\ o.len \in {"whole", "short"} /\ HbRecvfrom(o)) =>
                /\ UNCHANGED <<StoreVars, heartbeats_sent>>
                /\ hb_pc' = "time" ]_vars

\* the store part of C29 alone
C29_StoreUntouched ==
    [][ (\E o \in RecvOutcomes(fd_table, heartbeat_socket_fd) : HbRecvfrom(o)) =>
            UNCHANGED <<StoreVars, heartbeats_sent>> ]_vars

\* C30: every close, of main or of a thread at its end, is made on a
\* descriptor that is an open socket when it is made (so that no socket is
\* closed twice and nothing else is closed), and no socket is left open
\* when main has ended.
C30_EachSocketClosedOnce ==
    [][ /\ (MainCloseData \/ DataClose) => IsSocket(fd_table, data_socket_fd)
        /\ (MainCloseHeartbeat \/ HbClose) => IsSocket(fd_table, heartbeat_socket_fd)
        /\ main_pc' = "exited" => \A fd \in Fds : ~IsSocket(fd_table', fd) ]_vars

\* the first part of C30 for the closes the threads make at their end
C30_ThreadsCloseOpenSockets ==
    [][ /\ DataClose => IsSocket(fd_table, data_socket_fd)
        /\ HbClose => IsSocket(fd_table, heartbeat_socket_fd) ]_vars

\* the centre of a world box, with the second and third axis exchanged as
\* the display has them
CenterOf(origin, size) ==
    Vec3(origin[0] + size[0] \div 2,
         origin[2] + size[2] \div 2,
         origin[1] + size[1] \div 2)

\* C25: rotation_center is computed anew in an application that resizes (it
\* is then the centre of the box the store holds) and in no other: an
\* application that does not resize leaves world_origin, world_size and
\* rotation_center as they are, whatever box its header carries; so does
\* every step that applies nothing.
C25_CenterFollowsResize ==
    [][ /\ (Applies /\ NewParticleCount(sw, packet') /\ ~crashed') =>
               sw'.rotation_center = CenterOf(sw'.world_origin, sw'.world_size)
        /\ ~(Applies /\ NewParticleCount(sw, packet')) =>
               /\ sw'.world_origin = sw.world_origin
               /\ sw'.world_size = sw.world_size
               /\ sw'.rotation_center = sw.rotation_center ]_vars

\* C25 witness: the packet applied last did not resize and carries a box
\* that is not the store's; the store's centre has the x of the sentinel
C25_Witness ==
    /\ sw.packets_received > 1
    /\ sw.total_particle_count > 0
    /\ packet.world_origin # sw.world_origin
    /\ packet.world_size # sw.world_size
    /\ sw.rotation_center[0] = UNDEFINED_PARTICLE
    /\ sw.rotation_center = CenterOf(sw.world_origin, sw.world_size)

\* C26: an application that resizes leaves world_origin and world_size with
\* the values of the packet's header and rotation_center at
\* (o[0] + s[0]/2, o[2] + s[2]/2, o[1] + s[1]/2) of those values.
C26_WorldFromResizingPacket ==
    [][ (Applies /\ NewParticleCount(sw, packet') /\ ~crashed') =>
            /\ sw'.world_origin = packet'.world_origin
            /\ sw'.world_size = packet'.world_size
            /\ sw'.rotation_center =
                   Vec3(packet'.world_origin[0] + packet'.world_size[0] \div 2,
                        packet'.world_origin[2] + packet'.world_size[2] \div 2,
                        packet'.world_origin[1] + packet'.world_size[1] \div 2) ]_vars

\* C26 witness: the second resize took a box that differs from the first in
\* every coordinate
C26_Witness ==
    /\ sw.packets_received = 2
    /\ sw.total_particle_count = 2
    /\ sw.world_origin = Vec3(10, 20, 30)
    /\ sw.world_size = Vec3(2, 6, 10)
    /\ sw.rotation_center = Vec3(11, 35, 23)

\* C24: a packet holds floor((1472 - 36) / 38) = 37 records and is 1442
\* bytes long, which is no more than PTP_UDP_PACKET_MAX; a datagram goes on
\* to be applied only when it is exactly that long.
C24_OnlyExactLengthApplied ==
    [][ /\ PTP_PARTICLES_PER_PACKET = 37
        /\ SizeofPacket = 1442
        /\ SizeofPacket <= PTP_UDP_PACKET_MAX
        /\ \A n \in DatagramLengths, p \in NetPackets :
               (DataReceivePacket(n, p) /\ data_pc' = "apply") => n = SizeofPacket ]_vars

\* the fields of the store the claims name
StoreFields ==
    {"x", "y", "z", "particle_type", "t", "total_particle_count",
     "most_recent_timestamp", "total_timesteps", "world_origin", "world_size",
     "rotation_center", "packets_received"}

\* the data thread writes one of the store's fields in this step
DataWrites == \E f \in StoreFields : sw'[f] # sw[f]

\* the heartbeat thread writes its counter in this step
HeartbeatWrites == heartbeats_sent' # heartbeats_sent

\* C27: a network loop writes to the store only while it holds the store's
\* lock: the data thread its fields, the heartbeat thread heartbeats_sent.
C27_WritesUnderLock ==
    [][ /\ DataWrites => (lock = "data" /\ lock' = "data")
        /\ HeartbeatWrites => (lock = "heartbeat" /\ lock' = "heartbeat") ]_vars

\* the part of C27 that speaks of the data thread
C27_DataWritesUnderLock ==
    [][ DataWrites => (lock = "data" /\ lock' = "data") ]_vars

\* C28 (each packet once): a packet received waits at the lock, unchanged and
\* uncounted, for as long as the lock is held by another; it is counted once
\* after the lock is taken, and the next receive comes only after the unlock.
C28_OnceBeforeNextReceive ==
    [][ /\ (data_pc = "recvfrom" /\ data_pc' # data_pc) => data_pc' = "trylock"
        /\ data_pc = "trylock" =>
               /\ data_pc' \in {"trylock", "timestamp"}
               /\ data_pc' = "timestamp" => (lock = "none" /\ lock' = "data")
        /\ (data_pc = "count" /\ data_pc' # data_pc) =>
               sw'.packets_received = sw.packets_received + 1
        /\ ~(data_pc = "count" /\ data_pc' # data_pc) =>
               sw'.packets_received = sw.packets_received
        /\ data_pc # "recvfrom" => packet' = packet
        /\ (data_pc # "recvfrom" /\ data_pc' = "recvfrom") =>
               (data_pc = "unlock" /\ lock = "data" /\ lock' = "none") ]_vars

C31_UpdateTimesBelowMostRecent ==
    (oob = {} /\ ~crashed) =>
        \A id \in Ids(sw) : sw.t.cells[id] <= sw.most_recent_timestamp

\* C31 witness: after a resize to two particles and a packet older than
\* most_recent_timestamp, one particle has the newest time and the other an
\* older one
C31_Witness ==
    /\ oob = {} /\ ~crashed
    /\ sw.packets_received = 3
    /\ sw.total_particle_count = 2
    /\ packet.t < sw.most_recent_timestamp
    /\ \E id \in Ids(sw) : sw.t.cells[id] = sw.most_recent_timestamp
    /\ \E id \in Ids(sw) : sw.t.cells[id] = packet.t /\ packet.t > 0

\* the timesteps counted are no more than the times seen
TimestepsWithinTimes == sw.total_timesteps <= Cardinality(applied_times)

\* C32: in every state total_timesteps is at most packets_received, and at
\* most the number of distinct times among the packets applied so far.
C32_TimestepsBelowPackets ==
    /\ sw.total_timesteps <= sw.packets_received
    /\ TimestepsWithinTimes

\* C32 as it holds: total_timesteps is at most packets_received whenever the
\* data thread does not hold the lock, that is between applications; it is
\* at most the number of distinct times among the packets applied so far in
\* every state.
C32_TimestepsBelowPacketsBetween ==
    /\ lock # "data" => sw.total_timesteps <= sw.packets_received
    /\ TimestepsWithinTimes

\* C32 witness: of three packets applied, two raised the timestamp and one
\* repeated a time
C32_Witness ==
    /\ lock = "none"
    /\ sw.packets_received = 3
    /\ sw.total_timesteps = 2
    /\ Cardinality(applied_times) = 2

\* the iteration the particle loop is about to make reads packet.data[particle]
ReadsRecord == data_pc = "particles" /\ ~crashed /\ particle < packet.particle_count

\* C33: the particle loop reads the records of the packet only at indices
\* below PTP_PARTICLES_PER_PACKET, whatever particle_count the header
\* declares.
C33_ReadsInsidePacket == ReadsRecord => particle < PTP_PARTICLES_PER_PACKET

\* the data thread is at a receive call, or past its loop
OutsideApplication == data_pc \in {"recvfrom", "close", "exited"}

\* C34 (one unlock for each lock): the data thread takes the lock only at its
\* try-lock, gives it up only at the unlock that ends the application, and
\* leaves an application only through that unlock.
C34_UnlockEndsApplication ==
    [][ /\ (lock # "data" /\ lock' = "data") =>
               (data_pc = "trylock" /\ data_pc' = "timestamp")
        /\ (lock = "data" /\ lock' # "data") =>
               (data_pc = "unlock" /\ data_pc' = "recvfrom" /\ lock' = "none")
        /\ (~OutsideApplication /\ data_pc # "trylock" /\ data_pc' # data_pc) =>
               (lock = "data" /\ (OutsideApplication' <=> lock' = "none")) ]_vars

\* C34: every lock the data thread takes is followed by one unlock in the
\* same packet application (unless a fault ends the process first), so the
\* data thread does not hold the lock at a receive call, nor when it closes
\* its socket, nor after it has returned.
C34_LockReleasedBeforeReceive ==
    /\ [](OutsideApplication => lock # "data")
    /\ C34_UnlockEndsApplication
    /\ [](lock = "data" => <>(lock = "none" \/ crashed))

\* C34 witness: the data thread has applied two packets and returned, and
\* display() holds the lock
C34_Witness ==
    /\ data_pc = "exited"
    /\ sw.packets_received = 2
    /\ lock = "display"

\* the session's counters
Counters(s) == <<s.most_recent_timestamp, s.total_timesteps, s.packets_received>>

\* the data thread is inside the if that allocates
InResize == data_pc \in {"free", "calloc", "undefine", "world"}

\* C35: the stages of a resize leave most_recent_timestamp, total_timesteps
\* and packets_received as they are, and no step lowers one of them; a
\* packet adds a timestep exactly when its time is above the old
\* most_recent_timestamp, whether it resizes or not.
C35_CountersCarryOverResize ==
    [][ /\ InResize => Counters(sw') = Counters(sw)
        /\ sw'.most_recent_timestamp >= sw.most_recent_timestamp
        /\ sw'.total_timesteps >= sw.total_timesteps
        /\ sw'.packets_received >= sw.packets_received
        /\ (data_pc = "timestamp" /\ data_pc' # data_pc) =>
               sw'.total_timesteps =
                   IF packet.t > sw.most_recent_timestamp
                   THEN sw.total_timesteps + 1 ELSE sw.total_timesteps
        /\ data_pc # "timestamp" => sw'.total_timesteps = sw.total_timesteps ]_vars

\* C35 witness: the second packet is older than the first and brings a new
\* particle count; its resize is done, and the counters stand as the
\* timestamp and the count left them
C35_Witness ==
    /\ data_pc = "save_total"
    /\ sw.total_particle_count = 1
    /\ packet.total_particle_count = 2
    /\ Length(sw.x) = 2
    /\ packet.t < sw.most_recent_timestamp
    /\ sw.total_timesteps = 1
    /\ sw.packets_received = 2

====
